---- MODULE Spec2Model ----
(***************************************************************************)
(* State-machine model of the Future-Self frontend:                         *)
(*   - App (wizard navigation, session / persona / resume analysis)         *)
(*   - FuturisticResumeUpload (file validation, analyze-resume request)     *)
(*   - FuturisticChat (socket + HTTP chat client)                           *)
(*   - FutureSelfInterface (socket chat with global response timeouts)      *)
(* Each component has its own specification over the shared variable list;  *)
(* the variables of the other components stay at their initial values.      *)
(***************************************************************************)
EXTENDS Integers, Sequences, FiniteSets, TLC

(***************************************************************************)
(* Bounds of the model                                                      *)
(***************************************************************************)
\* upload attempts (requests, leaked intervals, reset timers) tracked at once
MaxUploads == 2
\* length of the chat transcript
MaxMessages == 3
\* sockets one FuturisticChat creates
MaxSockets == 2
\* socket events in flight to the client
MaxInbox == 1
\* emits in flight to the server
MaxOutbox == 1
\* POST /chat requests in flight
MaxHttp == 1
\* pending error auto-hide timers
MaxErrorTimers == 1
\* length of the FutureSelfInterface transcript
MaxTranscript == 4
\* sendMessage calls of FutureSelfInterface that arm a timer
MaxSends == 2
\* tab load requests of FutureSelfInterface in flight at a time
MaxPending == 1
\* requests of the PerformanceDashboard in flight
MaxDashRequests == 3

(***************************************************************************)
(* Values                                                                   *)
(***************************************************************************)
\* JavaScript null / undefined
Null == "null"

SessionIds == {"s1", "s2"}
Personas == {"p1"}

\* the body of an analyze-resume response ({success, session_id, persona, error})
NullData ==
  [isNull |-> TRUE, success |-> FALSE, session_id |-> Null, persona |-> Null, error |-> Null]

SuccessData ==
  [isNull : {FALSE}, success : {TRUE}, session_id : SessionIds \cup {Null},
   persona : Personas \cup {Null}, error : {Null}]

FailureData ==
  [isNull : {FALSE}, success : {FALSE}, session_id : {Null},
   persona : {Null}, error : {Null, "Could not parse resume"}]

ResponseData == SuccessData \cup FailureData

\* how an axios request can throw
ThrowKinds == {"server_error", "ECONNABORTED", "Network Error", "other"}

\* files offered to the upload area
AllowedTypes ==
  {"application/pdf",
   "application/vnd.openxmlformats-officedocument.wordprocessingml.document",
   "text/plain"}

MaxFileSize == 10 * 1024 * 1024

FileTypes == {"application/pdf", "image/png"}
FileSizes == {MaxFileSize - 1, MaxFileSize, MaxFileSize + 1}
Files == [type : FileTypes, size : FileSizes]
\* a FileList holds no file or one file (only files[0] is read)
FileLists == {<<>>} \cup {<<f>> : f \in Files}

Steps == {"welcome", "resume", "dashboard", "chat"}

ErrMissingSessionOrPersona == "Failed to process resume. Missing session or persona."
ErrUploadFirst == "Please upload your resume first"
ErrAnalyzeFirst == "Please upload and analyze your resume first"
ErrFileType == "Please upload a PDF, DOCX, or TXT file"
ErrFileSize == "File size must be less than 10MB"

VARIABLES
  \* App
  currentStep, sessionId, resumeAnalysis, persona, appError,
  \* FuturisticResumeUpload (the instance mounted in the 'resume' step)
  upResumeAnalysis, isAnalyzing, uploadProgress, upError,
  \* upload attempts: requests in flight, progress intervals, reset timers
  uploads

VARIABLES
  \* FuturisticChat: props and lifecycle
  propSessionId, propPersona, chatPhase,
  \* FuturisticChat: state
  messages, isConnected, isTyping, chatError, connectionStatus, showQuickQuestions,
  \* FuturisticChat: socketRef, the sockets created, pending dynamic imports
  socketRef, sockets, imports,
  \* socket events in flight to the client and emits in flight to the server
  inbox, outbox,
  \* POST /chat requests in flight and pending 5 s error timers
  httpRequests, errorTimers,
  \* history: how many of the pending 5 s timers (the oldest ones) were
  \* started for an error that was replaced by a later setError since
  staleTimers,
  \* ChatBox: the request that handleSend awaits (0 when it awaits none)
  boxRequest

VARIABLES
  \* FutureSelfInterface: the socket prop ("none", "connected", "disconnected")
  fsiSocket,
  \* FutureSelfInterface: state
  fsiMessages, messageHistory, messageCount, fsiIsTyping, messageInput,
  \* FutureSelfInterface: the selected chat mode and personality
  chatMode, aiPersonality,
  \* pending setTimeout callbacks and the number of sendMessage calls that armed one
  fsiTimers, fsiSends,
  \* window.currentTimeoutId and window.checkTimeoutId (0 when null or unset)
  currentTimeoutId, checkTimeoutId,
  \* history: response timers armed and not yet followed by a handled
  \* receive_message, error or disconnect
  fsiUndisturbed,
  \* FutureSelfInterface: generateFutureSelf, its position ("age", "conv",
  \* "done") and the state it sets
  uploadedPhotoUrl, futureAvatar, isLoading, conversationId, genPhase,
  \* FutureSelfInterface: the tabs, the data loaded for each tab and the
  \* number of load requests in flight for each tab
  activeTab, tabData, tabPending,
  \* FutureSelfInterface.showPerformanceDashboard (the isVisible prop) and
  \* PerformanceDashboard: loading, stats and the requests in flight
  \* (refreshes, optimize POSTs, refreshes awaited by optimizeSystem)
  showPerformanceDashboard, loading, stats, dashRequests

appVars == <<currentStep, sessionId, resumeAnalysis, persona, appError>>
upVars == <<upResumeAnalysis, isAnalyzing, uploadProgress, upError, uploads>>
chatProps == <<propSessionId, propPersona, chatPhase>>
chatState ==
  <<messages, isConnected, isTyping, chatError, connectionStatus, showQuickQuestions>>
chatNet == <<socketRef, sockets, imports, inbox, outbox, httpRequests, errorTimers, staleTimers>>
chatVars == <<chatProps, chatState, chatNet, boxRequest>>
fsiState == <<fsiMessages, messageHistory, messageCount, fsiIsTyping, messageInput>>
fsiTimerVars == <<fsiTimers, fsiSends, currentTimeoutId, checkTimeoutId, fsiUndisturbed>>
fsiGen == <<uploadedPhotoUrl, futureAvatar, isLoading, conversationId, genPhase>>
fsiTabs == <<activeTab, tabData, tabPending>>
fsiMode == <<chatMode, aiPersonality>>
dashVars == <<showPerformanceDashboard, loading, stats, dashRequests>>
fsiVars == <<fsiSocket, fsiState, fsiTimerVars, fsiGen, fsiTabs, fsiMode, dashVars>>
vars == <<appVars, upVars, chatVars, fsiVars>>

(***************************************************************************)
(* Helpers                                                                  *)
(***************************************************************************)
Min(a, b) == IF a < b THEN a ELSE b

RemoveAt(s, i) == [j \in 1..(Len(s) - 1) |-> IF j < i THEN s[j] ELSE s[j + 1]]

(***************************************************************************)
(* App                                                                      *)
(***************************************************************************)
InitApp ==
  /\ currentStep = "welcome"
  /\ sessionId = Null
  /\ resumeAnalysis = NullData
  /\ persona = Null
  /\ appError = Null

\* handleResumeUpload keeping a persona that is already set
HandleResumeUpload_KeepPersona(data) ==
  IF data.success /\ data.session_id # Null
  THEN /\ sessionId' = data.session_id
       /\ resumeAnalysis' = data
       /\ persona' = IF persona = Null THEN data.persona ELSE persona
       /\ currentStep' = "dashboard"
       /\ UNCHANGED appError
  ELSE /\ appError' = ErrMissingSessionOrPersona
       /\ UNCHANGED <<currentStep, sessionId, resumeAnalysis, persona>>

\* handleResumeUpload dropping the session when it rejects
HandleResumeUpload_RejectResets(data) ==
  IF data.success /\ data.session_id # Null
  THEN /\ sessionId' = data.session_id
       /\ resumeAnalysis' = data
       /\ persona' = data.persona
       /\ currentStep' = "dashboard"
       /\ UNCHANGED appError
  ELSE /\ appError' = ErrMissingSessionOrPersona
       /\ sessionId' = Null
       /\ UNCHANGED <<currentStep, resumeAnalysis, persona>>

\* App.handleResumeUpload: accept the response or set the error banner
HandleResumeUpload(data) ==
  IF data.success /\ data.session_id # Null
  THEN /\ sessionId' = data.session_id
       /\ resumeAnalysis' = data
       /\ persona' = data.persona
       /\ currentStep' = "dashboard"
       /\ UNCHANGED appError
  ELSE /\ appError' = ErrMissingSessionOrPersona
       /\ UNCHANGED <<currentStep, sessionId, resumeAnalysis, persona>>


\* handleStartChat checking the session only
HandleStartChatMissing_SessionOnly == sessionId = Null

\* App.handleStartChat: the condition of its early return
HandleStartChatMissing == sessionId = Null \/ persona = Null

\* App.handleBack: the step Back leads to
handleBackStep(step) ==
  IF step = "chat" THEN "dashboard"
  ELSE IF step = "dashboard" THEN "resume"
  ELSE "welcome"

\* handleNext entering the chat on the session alone
handleNextStep_SessionOnly(step, ra, sid, p) ==
  IF step = "welcome" THEN "resume"
  ELSE IF step = "resume" /\ ra # NullData THEN "dashboard"
  ELSE IF step = "dashboard" /\ sid # Null THEN "chat"
  ELSE step

\* App.handleNext: the step Next leads to
handleNextStep(step, ra, sid, p) ==
  IF step = "welcome" THEN "resume"
  ELSE IF step = "resume" /\ ra # NullData THEN "dashboard"
  ELSE IF step = "dashboard" /\ sid # Null /\ p # Null THEN "chat"
  ELSE step

\* what App renders in each step
ChatRendered == currentStep = "chat" /\ sessionId # Null /\ persona # Null
UploadRendered == currentStep = "resume"
DashboardRendered == currentStep = "dashboard"

(***************************************************************************)
(* FuturisticResumeUpload                                                   *)
(***************************************************************************)
InitUpload ==
  /\ upResumeAnalysis = NullData
  /\ isAnalyzing = FALSE
  /\ uploadProgress = 0
  /\ upError = Null
  /\ uploads = <<>>

\* requests of an unmounted instance stay in flight; its interval and
\* timer callbacks only set state of the unmounted instance
IsPending(u) == u.pending
Orphan(u) == [u EXCEPT !.live = FALSE, !.interval = FALSE, !.resetTimer = FALSE]
Orphaned(us) == [i \in 1..Len(SelectSeq(us, IsPending)) |-> Orphan(SelectSeq(us, IsPending)[i])]

\* leaving the 'resume' step unmounts the upload component; entering it
\* mounts a fresh instance
UnmountUpload(us) ==
  /\ upResumeAnalysis' = NullData
  /\ isAnalyzing' = FALSE
  /\ uploadProgress' = 0
  /\ upError' = Null
  /\ uploads' = Orphaned(us)

\* setCurrentStep(step) together with the re-render it causes
SetCurrentStep(step) ==
  /\ currentStep' = step
  /\ IF currentStep = "resume" /\ step # "resume"
     THEN UnmountUpload(uploads)
     ELSE UNCHANGED upVars

\* an attempt with nothing left to run is forgotten
IsActive(u) == u.pending \/ u.interval \/ u.resetTimer
Active(us) == SelectSeq(us, IsActive)

ThrowMessage(kind) ==
  IF kind = "server_error" THEN "Server rejected the upload"
  ELSE IF kind = "ECONNABORTED" THEN "Request timeout. Please try again."
  ELSE IF kind = "Network Error"
       THEN "Network error. Please check your connection and try again."
  ELSE "Failed to analyze resume. Please check your connection and try again."

\* the validation at the head of handleFileUpload: Null when the file passes
FileError(file) ==
  IF file.type \notin AllowedTypes THEN ErrFileType
  ELSE IF file.size > MaxFileSize THEN ErrFileSize
  ELSE Null

\* FuturisticResumeUpload.handleFileUpload up to the await of the request
HandleFileUpload(files) ==
  /\ UploadRendered
  /\ ~isAnalyzing
  /\ IF Len(files) = 0
     THEN UNCHANGED upVars
     ELSE IF FileError(files[1]) # Null
     THEN /\ upError' = FileError(files[1])
          /\ UNCHANGED <<upResumeAnalysis, isAnalyzing, uploadProgress, uploads>>
     ELSE /\ Len(uploads) < MaxUploads
          /\ isAnalyzing' = TRUE
          /\ uploadProgress' = 0
          /\ upError' = Null
          /\ uploads' = Append(uploads,
               [live |-> TRUE, file |-> files[1], pending |-> TRUE,
                interval |-> TRUE, resetTimer |-> FALSE])
          /\ UNCHANGED upResumeAnalysis
  /\ UNCHANGED appVars
  /\ UNCHANGED <<chatVars, fsiVars>>

\* the 200 ms progress interval of attempt i
ProgressTick(i) ==
  /\ i \in DOMAIN uploads
  /\ uploads[i].interval
  /\ uploads[i].live
  /\ uploadProgress' = Min(uploadProgress + 10, 90)
  /\ UNCHANGED <<upResumeAnalysis, isAnalyzing, upError, uploads>>
  /\ UNCHANGED appVars
  /\ UNCHANGED <<chatVars, fsiVars>>

\* attempt i after its request settled; cleared tells whether clearInterval ran
Settled(i, cleared) ==
  [uploads EXCEPT ![i] =
     [@ EXCEPT !.pending = FALSE,
               !.interval = IF cleared THEN FALSE ELSE @,
               !.resetTimer = uploads[i].live]]

\* handleFileUpload after the await: the request of attempt i resolves
UploadResolves(i, data) ==
  /\ i \in DOMAIN uploads
  /\ uploads[i].pending
  /\ IF data.success
     THEN HandleResumeUpload(data)
     ELSE UNCHANGED appVars
  /\ IF currentStep = "resume" /\ currentStep' # "resume"
     THEN UnmountUpload(Settled(i, TRUE))
     ELSE /\ uploads' = Active(Settled(i, TRUE))
          /\ IF uploads[i].live
             THEN /\ uploadProgress' = 100
                  /\ upResumeAnalysis' = IF data.success THEN data ELSE upResumeAnalysis
                  /\ upError' = IF data.success THEN upError
                                ELSE IF data.error # Null THEN data.error
                                ELSE "Analysis failed"
                  /\ isAnalyzing' = FALSE
             ELSE UNCHANGED <<upResumeAnalysis, isAnalyzing, uploadProgress, upError>>
  /\ UNCHANGED <<chatVars, fsiVars>>

\* handleFileUpload after the await: the request of attempt i throws
UploadThrows(i, kind) ==
  /\ i \in DOMAIN uploads
  /\ uploads[i].pending
  /\ uploads' = Active(Settled(i, FALSE))
  /\ IF uploads[i].live
     THEN /\ upError' = ThrowMessage(kind)
          /\ isAnalyzing' = FALSE
          /\ UNCHANGED <<upResumeAnalysis, uploadProgress>>
     ELSE UNCHANGED <<upResumeAnalysis, isAnalyzing, uploadProgress, upError>>
  /\ UNCHANGED appVars
  /\ UNCHANGED <<chatVars, fsiVars>>

\* the 1000 ms timer of the finally block of attempt i
ResetTimerFires(i) ==
  /\ i \in DOMAIN uploads
  /\ uploads[i].resetTimer
  /\ ~uploads[i].pending
  /\ uploadProgress' = 0
  /\ uploads' = Active([uploads EXCEPT ![i] = [@ EXCEPT !.resetTimer = FALSE]])
  /\ UNCHANGED <<upResumeAnalysis, isAnalyzing, upError>>
  /\ UNCHANGED appVars
  /\ UNCHANGED <<chatVars, fsiVars>>

\* the inline onNext without its resumeAnalysis check
ResumeOnNext_NoCheck ==
  /\ UploadRendered
  /\ ~(isAnalyzing \/ upResumeAnalysis = NullData)
  /\ SetCurrentStep("dashboard")
  /\ UNCHANGED <<sessionId, resumeAnalysis, persona, appError>>
  /\ UNCHANGED <<chatVars, fsiVars>>

\* the Next button of the upload view (App's inline onNext)
ResumeOnNext ==
  /\ UploadRendered
  /\ ~(isAnalyzing \/ upResumeAnalysis = NullData)
  /\ IF resumeAnalysis # NullData
     THEN SetCurrentStep("dashboard") /\ UNCHANGED appError
     ELSE appError' = ErrAnalyzeFirst /\ UNCHANGED <<currentStep, upVars>>
  /\ UNCHANGED <<sessionId, resumeAnalysis, persona>>
  /\ UNCHANGED <<chatVars, fsiVars>>

(***************************************************************************)
(* App: the user's actions                                                  *)
(***************************************************************************)
\* the Start Chat button of the dashboard
HandleStartChat ==
  /\ DashboardRendered
  /\ IF HandleStartChatMissing
     THEN appError' = ErrUploadFirst /\ SetCurrentStep("resume")
     ELSE SetCurrentStep("chat") /\ UNCHANGED appError
  /\ UNCHANGED <<sessionId, resumeAnalysis, persona>>
  /\ UNCHANGED <<chatVars, fsiVars>>

\* the Back buttons of the upload view, the dashboard and the chat
HandleBack ==
  /\ UploadRendered \/ DashboardRendered \/ ChatRendered
  /\ SetCurrentStep(handleBackStep(currentStep))
  /\ UNCHANGED <<sessionId, resumeAnalysis, persona, appError>>
  /\ UNCHANGED <<chatVars, fsiVars>>

\* 'Start Your Journey' of the welcome view, 'Continue' of the chat
HandleNext ==
  /\ currentStep = "welcome" \/ ChatRendered
  /\ SetCurrentStep(handleNextStep(currentStep, resumeAnalysis, sessionId, persona))
  /\ UNCHANGED <<sessionId, resumeAnalysis, persona, appError>>
  /\ UNCHANGED <<chatVars, fsiVars>>

\* the navbar's 'Start Journey' button (onConnect)
NavbarConnect ==
  /\ SetCurrentStep("resume")
  /\ UNCHANGED <<sessionId, resumeAnalysis, persona, appError>>
  /\ UNCHANGED <<chatVars, fsiVars>>

\* the close button of App's error banner
DismissAppError ==
  /\ appError # Null
  /\ appError' = Null
  /\ UNCHANGED <<currentStep, sessionId, resumeAnalysis, persona, upVars>>
  /\ UNCHANGED <<chatVars, fsiVars>>

(***************************************************************************)
(* FutureSelfInterface                                                      *)
(***************************************************************************)
\* values of the message input; "" and "  " trim to nothing
FsiInputs == {"", "  ", "Where will I be?"}

TimeoutPlaceholder == "I'm taking longer than usual to respond."
\* the canned responses of the fallback path
FallbackResponses == {"fallback 1", "fallback 2", "fallback 3", "fallback 4"}
\* the text handleError shows for data.error
ErrorReply(error) ==
  IF error # Null THEN "Sorry, I encountered an error: AI service unavailable."
  ELSE "Sorry, I encountered an error: Unknown error."

\* the options of the two selectors of the chat header
ChatModes == {"normal", "professional", "casual"}
AiPersonalities == {"encouraging", "realistic", "motivational"}

\* a render of the component: the chatMode and aiPersonality its functions
\* (addMessage, sendMessage and the callbacks they create) close over
Render(mode, personality) == [chatMode |-> mode, aiPersonality |-> personality]
\* the render whose functions the event handlers of the page call
CurrentRender == Render(chatMode, aiPersonality)
\* the render of the mount: the effects with dependencies [] and [socket]
\* ran in it, so generateFutureSelf and the socket listeners call its addMessage
FirstRender == Render("normal", "encouraging")

\* newMessage of addMessage called in a render
FsiMessage(render, message, sender) ==
  [message |-> message, sender |-> sender,
   chatMode |-> render.chatMode, aiPersonality |-> render.aiPersonality]

\* a pending setTimeout callback: the sendMessage call that armed it, its
\* kind ("main" 20 s, "check" 5 s, "fallback" 1-3 s) and whether a
\* receive_message was handled since; render is the render of the
\* sendMessage call, whose addMessage the callback calls
Timer(id, kind, render) == [id |-> id, kind |-> kind, replied |-> FALSE, render |-> render]
PendingMain == {t.id : t \in {u \in fsiTimers : u.kind = "main"}}

\* PerformanceDashboard as constructed, hidden
InitDashboard ==
  /\ showPerformanceDashboard = FALSE
  /\ loading = FALSE
  /\ stats = Null
  /\ dashRequests = [refresh |-> 0, optimize |-> 0, optimizeRefresh |-> 0]

InitFsiState ==
  /\ InitDashboard
  /\ fsiMessages = <<>>
  /\ messageHistory = <<>>
  /\ messageCount = 0
  /\ fsiIsTyping = FALSE
  /\ messageInput = ""
  /\ chatMode = "normal"
  /\ aiPersonality = "encouraging"
  /\ fsiTimers = {}
  /\ fsiSends = 0
  /\ currentTimeoutId = 0
  /\ checkTimeoutId = 0
  /\ fsiUndisturbed = {}

\* the tabs of FutureSelfInterface; every tab but 'chat' loads its data
Tabs == {"chat", "skills", "roadmap", "projects", "interview", "salary"}
DataTabs == Tabs \ {"chat"}

\* the uploadedPhotoUrl prop, the aged photo and the default avatar
PhotoUrls == {Null, "/uploads/photo.png"}
AgedPhotoUrl == "http://localhost:5000/aged/photo.png"
DefaultAvatar == "/default-avatar.png"

InitTabs ==
  /\ activeTab = "chat"
  /\ tabData = [t \in DataTabs |-> Null]
  /\ tabPending = [t \in DataTabs |-> 0]

\* FutureSelfInterface after its mount effects: generateFutureSelf waits
\* for age-photo when there is a photo, else for start-conversation
InitFsiLoading ==
  /\ fsiSocket \in {"none", "connected", "disconnected"}
  /\ InitFsiState
  /\ uploadedPhotoUrl \in PhotoUrls
  /\ futureAvatar = uploadedPhotoUrl
  /\ isLoading = TRUE
  /\ conversationId = Null
  /\ genPhase = IF uploadedPhotoUrl # Null THEN "age" ELSE "conv"
  /\ InitTabs

\* a mounted FutureSelfInterface with any socket prop, after
\* generateFutureSelf finished on a start-conversation response without
\* success (no greeting, no conversation id)
InitFsi ==
  /\ fsiSocket \in {"none", "connected", "disconnected"}
  /\ InitFsiState
  /\ uploadedPhotoUrl = Null
  /\ futureAvatar = Null
  /\ isLoading = FALSE
  /\ conversationId = Null
  /\ genPhase = "done"
  /\ InitTabs

\* no FutureSelfInterface exists
FsiAbsent ==
  /\ fsiSocket = "none"
  /\ InitFsiState
  /\ uploadedPhotoUrl = Null
  /\ futureAvatar = Null
  /\ isLoading = TRUE
  /\ conversationId = Null
  /\ genPhase = "absent"
  /\ InitTabs

\* the chat controls are rendered once loading ended and on the chat tab
ChatTabRendered == ~isLoading /\ activeTab = "chat"

\* FutureSelfInterface.addMessage, the one created in the given render
addMessage(render, message, sender) ==
  /\ Len(fsiMessages) < MaxTranscript
  /\ fsiMessages' = Append(fsiMessages, FsiMessage(render, message, sender))
  /\ messageHistory' = Append(messageHistory, FsiMessage(render, message, sender))
  /\ messageCount' = messageCount + 1

\* clearTimeout(id) on the timers of one kind; 0 and ids of timers that
\* already ran clear nothing
ClearTimeout(timers, kind, id) == {t \in timers : ~(t.kind = kind /\ t.id = id)}

\* the timers left with a receive_message handled while they were pending
MarkReplied(timers) == {[t EXCEPT !.replied = (t.kind = "main") \/ @] : t \in timers}

\* the onChange of the message input
SetMessageInput(text) ==
  /\ ChatTabRendered
  /\ messageInput' = text
  /\ UNCHANGED <<fsiSocket, fsiMessages, messageHistory, messageCount, fsiIsTyping,
                 fsiTimerVars>>
  /\ UNCHANGED <<appVars, upVars, chatVars, fsiGen, fsiTabs, fsiMode, dashVars>>

\* the onChange of the chat mode selector
SetChatMode(mode) ==
  /\ ChatTabRendered
  /\ chatMode' = mode
  /\ UNCHANGED aiPersonality
  /\ UNCHANGED <<fsiSocket, fsiState, fsiTimerVars>>
  /\ UNCHANGED <<appVars, upVars, chatVars, fsiGen, fsiTabs, dashVars>>

\* the onChange of the personality selector
SetAiPersonality(personality) ==
  /\ ChatTabRendered
  /\ aiPersonality' = personality
  /\ UNCHANGED chatMode
  /\ UNCHANGED <<fsiSocket, fsiState, fsiTimerVars>>
  /\ UNCHANGED <<appVars, upVars, chatVars, fsiGen, fsiTabs, dashVars>>

\* the socket branch of sendMessage: both timers armed and stored in window
ArmTimers(timers) ==
  /\ fsiSends < MaxSends
  /\ fsiSends' = fsiSends + 1
  /\ fsiTimers' = timers \cup {Timer(fsiSends + 1, "main", CurrentRender),
                             Timer(fsiSends + 1, "check", CurrentRender)}
  /\ currentTimeoutId' = fsiSends + 1
  /\ checkTimeoutId' = fsiSends + 1
  /\ fsiUndisturbed' = fsiUndisturbed \cup {fsiSends + 1}

\* the fallback branch of sendMessage
ArmFallback ==
  /\ fsiSends < MaxSends
  /\ fsiSends' = fsiSends + 1
  /\ fsiTimers' = fsiTimers \cup {Timer(fsiSends + 1, "fallback", CurrentRender)}
  /\ UNCHANGED <<currentTimeoutId, checkTimeoutId, fsiUndisturbed>>

\* sendMessage clearing the response timer of the previous message
SendMessage_ClearsPrevious ==
  /\ ChatTabRendered
  /\ IF messageInput \in {"", "  "}
     THEN UNCHANGED <<fsiState, fsiTimerVars>>
     ELSE /\ addMessage(CurrentRender, messageInput, "user")
          /\ fsiIsTyping' = TRUE
          /\ messageInput' = ""
          /\ IF fsiSocket = "connected"
             THEN ArmTimers(ClearTimeout(fsiTimers, "main", currentTimeoutId))
             ELSE ArmFallback
  /\ UNCHANGED fsiSocket
  /\ UNCHANGED <<appVars, upVars, chatVars, fsiGen, fsiTabs, fsiMode, dashVars>>

\* FutureSelfInterface.sendMessage (send button and Enter key)
SendMessage ==
  /\ ChatTabRendered
  /\ IF messageInput \in {"", "  "}
     THEN UNCHANGED <<fsiState, fsiTimerVars>>
     ELSE /\ addMessage(CurrentRender, messageInput, "user")
          /\ fsiIsTyping' = TRUE
          /\ messageInput' = ""
          /\ IF fsiSocket = "connected"
             THEN ArmTimers(fsiTimers)
             ELSE ArmFallback
  /\ UNCHANGED fsiSocket
  /\ UNCHANGED <<appVars, upVars, chatVars, fsiGen, fsiTabs, fsiMode, dashVars>>

\* timers run in the order of their deadlines: a 20 s timer after every
\* timer armed before it and after the 5 s timer armed with it
Due(t) ==
  /\ t \in fsiTimers
  /\ t.kind = "main" =>
       \A u \in fsiTimers : ~(u.id < t.id) /\ ~(u.id = t.id /\ u.kind = "check")
  /\ t.kind = "check" =>
       \A u \in fsiTimers : ~(u.id < t.id /\ u.kind \in {"check", "fallback"})

\* the callback of the 20 s timer armed by send number id
MainTimerFires(id) ==
  /\ \E t \in fsiTimers :
       /\ t.id = id /\ t.kind = "main" /\ Due(t)
       /\ addMessage(t.render, TimeoutPlaceholder, "future-self")
  /\ fsiTimers' = ClearTimeout(fsiTimers, "main", id)
  /\ fsiIsTyping' = FALSE
  /\ fsiUndisturbed' = fsiUndisturbed \ {id}
  /\ UNCHANGED <<fsiSocket, messageInput, fsiSends, currentTimeoutId, checkTimeoutId>>
  /\ UNCHANGED <<appVars, upVars, chatVars, fsiGen, fsiTabs, fsiMode, dashVars>>

\* the callback of the 5 s timer: it only logs
CheckTimerFires(id) ==
  /\ \E t \in fsiTimers : t.id = id /\ t.kind = "check" /\ Due(t)
  /\ fsiTimers' = ClearTimeout(fsiTimers, "check", id)
  /\ UNCHANGED <<fsiSocket, fsiState, fsiSends, currentTimeoutId, checkTimeoutId,
                 fsiUndisturbed>>
  /\ UNCHANGED <<appVars, upVars, chatVars, fsiGen, fsiTabs, fsiMode, dashVars>>

\* the callback of the fallback timer: one of the canned responses
FallbackTimerFires(id, response) ==
  /\ \E t \in fsiTimers :
       /\ t.id = id /\ t.kind = "fallback"
       /\ addMessage(t.render, response, "future-self")
  /\ fsiTimers' = ClearTimeout(fsiTimers, "fallback", id)
  /\ fsiIsTyping' = FALSE
  /\ UNCHANGED <<fsiSocket, messageInput, fsiSends, currentTimeoutId, checkTimeoutId,
                 fsiUndisturbed>>
  /\ UNCHANGED <<appVars, upVars, chatVars, fsiGen, fsiTabs, fsiMode, dashVars>>

\* handleReceiveMessage: the listener of 'receive_message'
HandleReceiveMessage(message) ==
  /\ fsiSocket = "connected"
  /\ fsiTimers' = MarkReplied(ClearTimeout(ClearTimeout(fsiTimers, "main", currentTimeoutId),
                                           "check", checkTimeoutId))
  /\ currentTimeoutId' = 0
  /\ checkTimeoutId' = 0
  /\ addMessage(FirstRender, message, "future-self")
  /\ fsiIsTyping' = FALSE
  /\ fsiUndisturbed' = {}
  /\ UNCHANGED <<fsiSocket, messageInput, fsiSends>>
  /\ UNCHANGED <<appVars, upVars, chatVars, fsiGen, fsiTabs, fsiMode, dashVars>>

\* handleTyping: the listener of 'typing'
HandleTyping(status) ==
  /\ fsiSocket = "connected"
  /\ fsiIsTyping' = (status = "start")
  /\ UNCHANGED <<fsiSocket, fsiMessages, messageHistory, messageCount, messageInput,
                 fsiTimerVars>>
  /\ UNCHANGED <<appVars, upVars, chatVars, fsiGen, fsiTabs, fsiMode, dashVars>>

\* handleError: the listener of 'error'
HandleError(error) ==
  /\ fsiSocket = "connected"
  /\ fsiTimers' = ClearTimeout(fsiTimers, "main", currentTimeoutId)
  /\ currentTimeoutId' = 0
  /\ fsiIsTyping' = FALSE
  /\ addMessage(FirstRender, ErrorReply(error), "future-self")
  /\ fsiUndisturbed' = {}
  /\ UNCHANGED <<fsiSocket, messageInput, fsiSends, checkTimeoutId>>
  /\ UNCHANGED <<appVars, upVars, chatVars, fsiGen, fsiTabs, fsiMode, dashVars>>

\* the socket connects again; handleConnect only logs
HandleConnect ==
  /\ fsiSocket = "disconnected"
  /\ fsiSocket' = "connected"
  /\ UNCHANGED <<fsiState, fsiTimerVars>>
  /\ UNCHANGED <<appVars, upVars, chatVars, fsiGen, fsiTabs, fsiMode, dashVars>>

\* the socket drops and handleDisconnect runs
HandleDisconnect ==
  /\ fsiSocket = "connected"
  /\ fsiSocket' = "disconnected"
  /\ fsiTimers' = ClearTimeout(fsiTimers, "main", currentTimeoutId)
  /\ currentTimeoutId' = 0
  /\ fsiIsTyping' = FALSE
  /\ fsiUndisturbed' = {}
  /\ UNCHANGED <<fsiMessages, messageHistory, messageCount, messageInput, fsiSends,
                 checkTimeoutId>>
  /\ UNCHANGED <<appVars, upVars, chatVars, fsiGen, fsiTabs, fsiMode, dashVars>>

\* clearChat leaving the history as it is
clearChat_KeepsHistory ==
  /\ ChatTabRendered
  /\ fsiMessages' = <<>>
  /\ messageCount' = 0
  /\ UNCHANGED messageHistory
  /\ UNCHANGED <<fsiSocket, fsiIsTyping, messageInput, fsiTimerVars>>
  /\ UNCHANGED <<appVars, upVars, chatVars, fsiGen, fsiTabs, fsiMode, dashVars>>

\* FutureSelfInterface.clearChat
clearChat ==
  /\ ChatTabRendered
  /\ fsiMessages' = <<>>
  /\ messageHistory' = <<>>
  /\ messageCount' = 0
  /\ UNCHANGED <<fsiSocket, fsiIsTyping, messageInput, fsiTimerVars>>
  /\ UNCHANGED <<appVars, upVars, chatVars, fsiGen, fsiTabs, fsiMode, dashVars>>

\* the performance field of the responses of GET /performance
PerformanceData == {"performance 1", "performance 2"}

InFlight == dashRequests.refresh + dashRequests.optimize + dashRequests.optimizeRefresh

\* fetchPerformanceStats up to its await, called by the effect, the
\* interval and the Refresh button
StartFetch ==
  /\ InFlight < MaxDashRequests
  /\ loading' = TRUE
  /\ dashRequests' = [dashRequests EXCEPT !.refresh = @ + 1]
  /\ UNCHANGED stats

\* the chat header's dashboard button: isVisible becomes true and the
\* effect fetches the stats and starts the 30 s interval
ShowDashboard ==
  /\ ChatTabRendered
  /\ ~showPerformanceDashboard
  /\ showPerformanceDashboard' = TRUE
  /\ StartFetch
  /\ UNCHANGED <<fsiSocket, fsiState, fsiTimerVars, fsiGen, fsiTabs, fsiMode>>
  /\ UNCHANGED <<appVars, upVars, chatVars>>

\* the dashboard's close button: the effect's cleanup clears the interval
CloseDashboard ==
  /\ showPerformanceDashboard
  /\ showPerformanceDashboard' = FALSE
  /\ UNCHANGED <<loading, stats, dashRequests>>
  /\ UNCHANGED <<fsiSocket, fsiState, fsiTimerVars, fsiGen, fsiTabs, fsiMode>>
  /\ UNCHANGED <<appVars, upVars, chatVars>>

\* the 30 s interval calls fetchPerformanceStats
AutoRefresh ==
  /\ showPerformanceDashboard
  /\ StartFetch
  /\ UNCHANGED showPerformanceDashboard
  /\ UNCHANGED <<fsiSocket, fsiState, fsiTimerVars, fsiGen, fsiTabs, fsiMode>>
  /\ UNCHANGED <<appVars, upVars, chatVars>>

\* the Refresh button, disabled while loading
RefreshClick ==
  /\ showPerformanceDashboard
  /\ ~loading
  /\ StartFetch
  /\ UNCHANGED showPerformanceDashboard
  /\ UNCHANGED <<fsiSocket, fsiState, fsiTimerVars, fsiGen, fsiTabs, fsiMode>>
  /\ UNCHANGED <<appVars, upVars, chatVars>>

\* fetchPerformanceStats after the await: the request resolves
FetchResolves(performance) ==
  /\ dashRequests.refresh > 0
  /\ dashRequests' = [dashRequests EXCEPT !.refresh = @ - 1]
  /\ stats' = performance
  /\ loading' = FALSE
  /\ UNCHANGED showPerformanceDashboard
  /\ UNCHANGED <<fsiSocket, fsiState, fsiTimerVars, fsiGen, fsiTabs, fsiMode>>
  /\ UNCHANGED <<appVars, upVars, chatVars>>

\* fetchPerformanceStats after the await: the request throws
FetchThrows ==
  /\ dashRequests.refresh > 0
  /\ dashRequests' = [dashRequests EXCEPT !.refresh = @ - 1]
  /\ loading' = FALSE
  /\ UNCHANGED <<showPerformanceDashboard, stats>>
  /\ UNCHANGED <<fsiSocket, fsiState, fsiTimerVars, fsiGen, fsiTabs, fsiMode>>
  /\ UNCHANGED <<appVars, upVars, chatVars>>

\* optimizeSystem up to the await of its POST
OptimizeClick ==
  /\ showPerformanceDashboard
  /\ InFlight < MaxDashRequests
  /\ loading' = TRUE
  /\ dashRequests' = [dashRequests EXCEPT !.optimize = @ + 1]
  /\ UNCHANGED <<showPerformanceDashboard, stats>>
  /\ UNCHANGED <<fsiSocket, fsiState, fsiTimerVars, fsiGen, fsiTabs, fsiMode>>
  /\ UNCHANGED <<appVars, upVars, chatVars>>

\* optimizeSystem after its POST resolved: it calls fetchPerformanceStats
\* and awaits it
OptimizeResolves ==
  /\ dashRequests.optimize > 0
  /\ loading' = TRUE
  /\ dashRequests' = [dashRequests EXCEPT !.optimize = @ - 1, !.optimizeRefresh = @ + 1]
  /\ UNCHANGED <<showPerformanceDashboard, stats>>
  /\ UNCHANGED <<fsiSocket, fsiState, fsiTimerVars, fsiGen, fsiTabs, fsiMode>>
  /\ UNCHANGED <<appVars, upVars, chatVars>>

\* optimizeSystem after its POST threw: alert, then the finally block
OptimizeThrows ==
  /\ dashRequests.optimize > 0
  /\ dashRequests' = [dashRequests EXCEPT !.optimize = @ - 1]
  /\ loading' = FALSE
  /\ UNCHANGED <<showPerformanceDashboard, stats>>
  /\ UNCHANGED <<fsiSocket, fsiState, fsiTimerVars, fsiGen, fsiTabs, fsiMode>>
  /\ UNCHANGED <<appVars, upVars, chatVars>>

\* the fetchPerformanceStats awaited by optimizeSystem settles (it catches
\* its own error; performance is Null when its request threw): its finally
\* block, the alert, then the finally block of optimizeSystem
OptimizeRefreshSettles(performance) ==
  /\ dashRequests.optimizeRefresh > 0
  /\ dashRequests' = [dashRequests EXCEPT !.optimizeRefresh = @ - 1]
  /\ stats' = IF performance # Null THEN performance ELSE stats
  /\ loading' = FALSE
  /\ UNCHANGED showPerformanceDashboard
  /\ UNCHANGED <<fsiSocket, fsiState, fsiTimerVars, fsiGen, fsiTabs, fsiMode>>
  /\ UNCHANGED <<appVars, upVars, chatVars>>

\* bodies of start-conversation responses
ConvResponses ==
  [success : BOOLEAN, conversation_id : {"c1"}, greeting : {"Hello from 2036."}]
FallbackGreeting == "Hello! I'm you from 10 years in the future. Ask me anything!"

\* generateFutureSelf after the await of age-photo: the request resolves
AgePhotoResolves(success) ==
  /\ genPhase = "age"
  /\ futureAvatar' = IF success THEN AgedPhotoUrl ELSE futureAvatar
  /\ genPhase' = "conv"
  /\ UNCHANGED <<uploadedPhotoUrl, isLoading, conversationId>>
  /\ UNCHANGED <<fsiSocket, fsiState, fsiTimerVars, fsiTabs>>
  /\ UNCHANGED <<appVars, upVars, chatVars, fsiMode, dashVars>>

\* generateFutureSelf after the await of start-conversation: it resolves
StartConversationResolves(data) ==
  /\ genPhase = "conv"
  /\ IF data.success
     THEN /\ conversationId' = data.conversation_id
          /\ addMessage(FirstRender, data.greeting, "future-self")
     ELSE UNCHANGED <<conversationId, fsiMessages, messageHistory, messageCount>>
  /\ isLoading' = FALSE
  /\ genPhase' = "done"
  /\ UNCHANGED <<uploadedPhotoUrl, futureAvatar>>
  /\ UNCHANGED <<fsiSocket, fsiIsTyping, messageInput, fsiTimerVars, fsiTabs>>
  /\ UNCHANGED <<appVars, upVars, chatVars, fsiMode, dashVars>>

\* the catch block leaving isLoading as it is
GenerateCatch_KeepsLoading ==
  /\ futureAvatar' = IF uploadedPhotoUrl # Null THEN uploadedPhotoUrl ELSE DefaultAvatar
  /\ addMessage(FirstRender, FallbackGreeting, "future-self")
  /\ UNCHANGED isLoading
  /\ genPhase' = "done"
  /\ UNCHANGED <<uploadedPhotoUrl, conversationId>>
  /\ UNCHANGED <<fsiSocket, fsiIsTyping, messageInput, fsiTimerVars, fsiTabs>>
  /\ UNCHANGED <<appVars, upVars, chatVars, fsiMode, dashVars>>

\* the catch block of generateFutureSelf
GenerateCatch ==
  /\ futureAvatar' = IF uploadedPhotoUrl # Null THEN uploadedPhotoUrl ELSE DefaultAvatar
  /\ addMessage(FirstRender, FallbackGreeting, "future-self")
  /\ isLoading' = FALSE
  /\ genPhase' = "done"
  /\ UNCHANGED <<uploadedPhotoUrl, conversationId>>
  /\ UNCHANGED <<fsiSocket, fsiIsTyping, messageInput, fsiTimerVars, fsiTabs>>
  /\ UNCHANGED <<appVars, upVars, chatVars, fsiMode, dashVars>>

\* the age-photo request throws
AgePhotoThrows == genPhase = "age" /\ GenerateCatch

\* the start-conversation request throws
StartConversationThrows == genPhase = "conv" /\ GenerateCatch

\* the number of tab load requests in flight
RECURSIVE SumPending(_, _)
SumPending(pending, tabs) ==
  IF tabs = {} THEN 0
  ELSE LET t == CHOOSE x \in tabs : TRUE
       IN pending[t] + SumPending(pending, tabs \ {t})

\* handleTabClick: a data tab without data starts its load request
HandleTabClick(tab) ==
  /\ ~isLoading
  /\ activeTab' = tab
  /\ IF tab \in DataTabs /\ tabData[tab] = Null
     THEN /\ SumPending(tabPending, DataTabs) < MaxPending
          /\ tabPending' = [tabPending EXCEPT ![tab] = @ + 1]
     ELSE UNCHANGED tabPending
  /\ UNCHANGED tabData
  /\ UNCHANGED <<fsiSocket, fsiState, fsiTimerVars, fsiGen>>
  /\ UNCHANGED <<appVars, upVars, chatVars, fsiMode, dashVars>>

\* loadSkillsAnalysis, loadTimeline, loadProjects, loadInterviewPrep and
\* loadSalaryProjection after the await: the request resolves
TabLoadResolves(tab, success) ==
  /\ tab \in DataTabs
  /\ tabPending[tab] > 0
  /\ tabPending' = [tabPending EXCEPT ![tab] = @ - 1]
  /\ tabData' = IF success THEN [tabData EXCEPT ![tab] = "data"] ELSE tabData
  /\ UNCHANGED activeTab
  /\ UNCHANGED <<fsiSocket, fsiState, fsiTimerVars, fsiGen>>
  /\ UNCHANGED <<appVars, upVars, chatVars, fsiMode, dashVars>>

\* the same after the await when the request throws: only loadProjects
\* sets a default
TabLoadThrows(tab) ==
  /\ tab \in DataTabs
  /\ tabPending[tab] > 0
  /\ tabPending' = [tabPending EXCEPT ![tab] = @ - 1]
  /\ tabData' = IF tab = "projects"
                THEN [tabData EXCEPT ![tab] = "default project"] ELSE tabData
  /\ UNCHANGED activeTab
  /\ UNCHANGED <<fsiSocket, fsiState, fsiTimerVars, fsiGen>>
  /\ UNCHANGED <<appVars, upVars, chatVars, fsiMode, dashVars>>

\* a data tab without data shows its 'Loading ...' placeholder
ShowsLoading(tab) == ~isLoading /\ activeTab = tab /\ tabData[tab] = Null

(***************************************************************************)
(* FuturisticChat                                                           *)
(***************************************************************************)
\* arguments of handleSendMessage; undefined, "" and "  " are blank
ChatInputs == {Null, "", "  ", "What should I focus on next?"}
IsBlank(message) == message \in {Null, "", "  "}

\* reply texts (data.response, data.message); Null when the field is absent
ReplyTexts == {Null, "Keep learning."}
\* error texts of the server; Null when the field is absent
ErrorTexts == {Null, "AI service unavailable"}

ErrSessionNotFound == "Session not found. Please upload your resume first."
ErrSocketDefault == "An error occurred. Please try again."
ErrHttpDefault == "Failed to get response"

\* the events the server sends on the socket
ServerEvents ==
  [name : {"ai_response"}, response : ReplyTexts \ {Null}]
    \cup [name : {"receive_message"}, message : ReplyTexts \ {Null}]
    \cup [name : {"typing"}, status : {"start", "stop"}]
    \cup [name : {"error"}, error : ErrorTexts]

\* the bodies of POST /chat responses
ChatResponses == [success : BOOLEAN, response : ReplyTexts, error : ErrorTexts]

WelcomeMessage == [role |-> "assistant", content |-> "welcome"]
UserMessage(text) == [role |-> "user", content |-> text]
AssistantMessage(text) == [role |-> "assistant", content |-> text]

InitChatState ==
  /\ boxRequest = 0
  /\ messages = <<>>
  /\ isConnected = FALSE
  /\ isTyping = FALSE
  /\ chatError = Null
  /\ connectionStatus = "connecting"
  /\ showQuickQuestions = TRUE
  /\ socketRef = 0
  /\ sockets = <<>>
  /\ imports = <<>>
  /\ inbox = <<>>
  /\ outbox = <<>>
  /\ httpRequests = <<>>
  /\ errorTimers = 0
  /\ staleTimers = 0

\* a FuturisticChat constructed with any props, before its mount effect
InitChat ==
  /\ propSessionId \in {Null, "s1"}
  /\ propPersona \in {Null, "p1"}
  /\ chatPhase = "constructed"
  /\ InitChatState

\* no FuturisticChat exists
ChatAbsent ==
  /\ propSessionId = Null
  /\ propPersona = Null
  /\ chatPhase = "absent"
  /\ InitChatState

Mounted == chatPhase = "mounted"

\* socket.emit: sent when the socket is connected, buffered while it is
\* connecting; what a closed socket buffers is never sent
EmitOn(socks, k, packet) ==
  IF socks[k].state = "connecting"
  THEN [socks EXCEPT ![k].buffer = Append(@, packet)]
  ELSE socks

EmitOut(socks, ob, k, packet) ==
  IF socks[k].state = "connected" THEN Append(ob, packet) ELSE ob

\* socket.disconnect() of the cleanup: the socket is closed for good
Disconnected(socks, k) == [socks EXCEPT ![k].state = "closed", ![k].joined = FALSE]

\* events in flight on socket k are lost when it disconnects
NotOn(k, ev) == ev.sock # k
DropEvents(ib, k) == SelectSeq(ib, LAMBDA ev : NotOn(k, ev))

\* the cleanup of the mount effect
CleanupSockets == IF socketRef # 0 THEN Disconnected(sockets, socketRef) ELSE sockets
CleanupInbox == IF socketRef # 0 THEN DropEvents(inbox, socketRef) ELSE inbox
\* disconnect() of a connected socket runs its 'disconnect' listener
CleanupFiresDisconnect == socketRef # 0 /\ sockets[socketRef].state = "connected"

\* the body of the mount effect, run with props sid and p
EffectBody(sid, p) ==
  /\ connectionStatus' =
       IF p # Null /\ sid # Null THEN "ready"
       ELSE IF sid = Null THEN "no-session"
       ELSE "connecting"
  /\ messages' = IF p # Null /\ sid # Null THEN <<WelcomeMessage>> ELSE messages
  /\ imports' = IF sid # Null THEN Append(imports, sid) ELSE imports

\* first run of the mount effect
MountEffect ==
  /\ chatPhase = "constructed"
  /\ chatPhase' = "mounted"
  /\ EffectBody(propSessionId, propPersona)
  /\ UNCHANGED <<propSessionId, propPersona, isConnected, isTyping, chatError,
                 showQuickQuestions, socketRef, sockets, inbox, outbox,
                 httpRequests, errorTimers, staleTimers>>
  /\ UNCHANGED <<appVars, upVars, fsiVars, boxRequest>>

\* the parent passes new props: the cleanup runs, then the effect again
PropsChange(sid, p) ==
  /\ Mounted
  /\ <<sid, p>> # <<propSessionId, propPersona>>
  /\ sid # Null => Len(imports) + Len(sockets) < MaxSockets
  /\ propSessionId' = sid
  /\ propPersona' = p
  /\ sockets' = CleanupSockets
  /\ inbox' = CleanupInbox
  /\ isConnected' = IF CleanupFiresDisconnect THEN FALSE ELSE isConnected
  /\ EffectBody(sid, p)
  /\ UNCHANGED <<chatPhase, isTyping, chatError, showQuickQuestions,
                 socketRef, outbox, httpRequests, errorTimers, staleTimers>>
  /\ UNCHANGED <<appVars, upVars, fsiVars, boxRequest>>

\* the component unmounts: the cleanup runs and the state is discarded;
\* callbacks that run later set no state
Unmount ==
  /\ Mounted
  /\ chatPhase' = "unmounted"
  /\ sockets' = CleanupSockets
  /\ inbox' = CleanupInbox
  /\ messages' = <<>>
  /\ isConnected' = FALSE
  /\ isTyping' = FALSE
  /\ chatError' = Null
  /\ connectionStatus' = "connecting"
  /\ showQuickQuestions' = TRUE
  /\ httpRequests' = <<>>
  /\ errorTimers' = 0
  /\ staleTimers' = 0
  /\ UNCHANGED <<propSessionId, propPersona, socketRef, imports, outbox>>
  /\ boxRequest' = 0
  /\ UNCHANGED <<appVars, upVars, fsiVars>>

\* import('socket.io-client') resolves: a socket is created and its
\* listeners are registered
ImportResolves ==
  /\ Len(imports) > 0
  /\ Len(sockets) < MaxSockets
  /\ sockets' = Append(sockets, [state |-> "connecting", sid |-> Head(imports), buffer |-> <<>>,
                                joined |-> FALSE])
  /\ socketRef' = Len(sockets) + 1
  /\ imports' = Tail(imports)
  /\ UNCHANGED <<chatProps, chatState, inbox, outbox, httpRequests, errorTimers, staleTimers>>
  /\ UNCHANGED <<appVars, upVars, fsiVars, boxRequest>>

\* import('socket.io-client') is rejected
ImportFails ==
  /\ Len(imports) > 0
  /\ imports' = Tail(imports)
  /\ IF Mounted
     THEN isConnected' = FALSE /\ connectionStatus' = "ready"
     ELSE UNCHANGED <<isConnected, connectionStatus>>
  /\ UNCHANGED <<chatProps, messages, isTyping, chatError, showQuickQuestions,
                 socketRef, sockets, inbox, outbox, httpRequests, errorTimers, staleTimers>>
  /\ UNCHANGED <<appVars, upVars, fsiVars, boxRequest>>

JoinPacket(sid) ==
  [sock |-> socketRef, event |-> "join_session", message |-> Null,
   session_id |-> sid, career |-> Null]

MessagePacket(message) ==
  [sock |-> socketRef, event |-> "message", message |-> message,
   session_id |-> propSessionId,
   career |-> IF propPersona # Null THEN propPersona ELSE "software_engineer"]

\* joined records that a join_session went out on the socket's connection
IsJoin(packet) == packet.event = "join_session"
EmitJoin(socks, k, packet) ==
  IF socks[k].state = "connected"
  THEN [socks EXCEPT ![k].joined = TRUE]
  ELSE EmitOn(socks, k, packet)

\* the 'connect' listener without its join_session
SocketConnects_NoJoin(k) ==
  /\ k \in DOMAIN sockets
  /\ sockets[k].state = "connecting"
  /\ LET opened == [sockets EXCEPT ![k].state = "connected", ![k].buffer = <<>>,
                                   ![k].joined = SelectSeq(sockets[k].buffer, IsJoin) # <<>>]
         flushed == outbox \o sockets[k].buffer
     IN /\ sockets' = opened
        /\ outbox' = flushed
  /\ Len(outbox') <= MaxOutbox
  /\ \A j \in DOMAIN sockets' : Len(sockets'[j].buffer) <= MaxOutbox
  /\ IF Mounted
     THEN isConnected' = TRUE /\ connectionStatus' = "connected" /\ chatError' = Null
     ELSE UNCHANGED <<isConnected, connectionStatus, chatError>>
  /\ UNCHANGED <<chatProps, messages, isTyping, showQuickQuestions,
                 socketRef, imports, inbox, httpRequests, errorTimers, staleTimers>>
  /\ UNCHANGED <<appVars, upVars, fsiVars, boxRequest>>

\* socket k connects (first connection or reconnection): what the socket
\* buffered goes out, then the 'connect' listener runs
SocketConnects(k) ==
  /\ k \in DOMAIN sockets
  /\ sockets[k].state = "connecting"
  /\ LET opened == [sockets EXCEPT ![k].state = "connected", ![k].buffer = <<>>,
                                   ![k].joined = SelectSeq(sockets[k].buffer, IsJoin) # <<>>]
         flushed == outbox \o sockets[k].buffer
     IN IF sockets[k].sid # Null
        THEN /\ sockets' = EmitJoin(opened, socketRef, JoinPacket(sockets[k].sid))
             /\ outbox' = EmitOut(opened, flushed, socketRef, JoinPacket(sockets[k].sid))
        ELSE /\ sockets' = opened
             /\ outbox' = flushed
  /\ Len(outbox') <= MaxOutbox
  /\ \A j \in DOMAIN sockets' : Len(sockets'[j].buffer) <= MaxOutbox
  /\ IF Mounted
     THEN isConnected' = TRUE /\ connectionStatus' = "connected" /\ chatError' = Null
     ELSE UNCHANGED <<isConnected, connectionStatus, chatError>>
  /\ UNCHANGED <<chatProps, messages, isTyping, showQuickQuestions,
                 socketRef, imports, inbox, httpRequests, errorTimers, staleTimers>>
  /\ UNCHANGED <<appVars, upVars, fsiVars, boxRequest>>

\* a connection attempt of socket k fails: 'connect_error' listener
SocketConnectError(k) ==
  /\ k \in DOMAIN sockets
  /\ sockets[k].state = "connecting"
  /\ Mounted
  /\ isConnected' = FALSE
  /\ connectionStatus' = "ready"
  /\ UNCHANGED <<chatProps, messages, isTyping, chatError, showQuickQuestions, chatNet>>
  /\ UNCHANGED <<appVars, upVars, fsiVars, boxRequest>>

\* the connection of socket k is lost: 'disconnect' listener; the socket
\* starts to reconnect
SocketDrops(k) ==
  /\ k \in DOMAIN sockets
  /\ sockets[k].state = "connected"
  /\ sockets' = [sockets EXCEPT ![k].state = "connecting", ![k].joined = FALSE]
  /\ inbox' = DropEvents(inbox, k)
  /\ IF Mounted
     THEN isConnected' = FALSE /\ connectionStatus' = "ready"
     ELSE UNCHANGED <<isConnected, connectionStatus>>
  /\ UNCHANGED <<chatProps, messages, isTyping, chatError, showQuickQuestions,
                 socketRef, imports, outbox, httpRequests, errorTimers, staleTimers>>
  /\ UNCHANGED <<appVars, upVars, fsiVars, boxRequest>>

\* the server sends an event on the connection of socket k
ServerEmits(k, ev) ==
  /\ k \in DOMAIN sockets
  /\ sockets[k].state = "connected"
  /\ Len(inbox) < MaxInbox
  /\ inbox' = Append(inbox, [sock |-> k, ev |-> ev])
  /\ UNCHANGED <<chatProps, chatState, socketRef, sockets, imports, outbox,
                 httpRequests, errorTimers, staleTimers>>
  /\ UNCHANGED <<appVars, upVars, fsiVars, boxRequest>>

\* the server takes the oldest emit off the wire
ServerReceives ==
  /\ Len(outbox) > 0
  /\ outbox' = Tail(outbox)
  /\ UNCHANGED <<chatProps, chatState, socketRef, sockets, imports, inbox,
                 httpRequests, errorTimers, staleTimers>>
  /\ UNCHANGED <<appVars, upVars, fsiVars, boxRequest>>

\* the event names FuturisticChat registers a listener for
ChatListeners == {"connect", "disconnect", "connect_error", "ai_response", "typing", "error"}

Arrives(name) == Len(inbox) > 0 /\ Head(inbox).ev.name = name

\* the 'ai_response' listener replacing the transcript by the reply
OnAiResponse_Replaces ==
  /\ Arrives("ai_response")
  /\ "ai_response" \in ChatListeners
  /\ inbox' = Tail(inbox)
  /\ IF Mounted
     THEN /\ Len(messages) < MaxMessages
          /\ isTyping' = FALSE
          /\ messages' = <<AssistantMessage(Head(inbox).ev.response)>>
          /\ chatError' = Null
     ELSE UNCHANGED <<isTyping, messages, chatError>>
  /\ UNCHANGED <<chatProps, isConnected, connectionStatus, showQuickQuestions,
                 socketRef, sockets, imports, outbox, httpRequests, errorTimers, staleTimers>>
  /\ UNCHANGED <<appVars, upVars, fsiVars, boxRequest>>

\* 'ai_response' listener
OnAiResponse ==
  /\ Arrives("ai_response")
  /\ "ai_response" \in ChatListeners
  /\ inbox' = Tail(inbox)
  /\ IF Mounted
     THEN /\ Len(messages) < MaxMessages
          /\ isTyping' = FALSE
          /\ messages' = Append(messages, AssistantMessage(Head(inbox).ev.response))
          /\ chatError' = Null
     ELSE UNCHANGED <<isTyping, messages, chatError>>
  /\ UNCHANGED <<chatProps, isConnected, connectionStatus, showQuickQuestions,
                 socketRef, sockets, imports, outbox, httpRequests, errorTimers, staleTimers>>
  /\ UNCHANGED <<appVars, upVars, fsiVars, boxRequest>>

\* 'typing' listener
OnTyping ==
  /\ Arrives("typing")
  /\ "typing" \in ChatListeners
  /\ inbox' = Tail(inbox)
  /\ IF Mounted
     THEN isTyping' = (Head(inbox).ev.status = "start")
     ELSE UNCHANGED isTyping
  /\ UNCHANGED <<chatProps, messages, isConnected, chatError, connectionStatus,
                 showQuickQuestions, socketRef, sockets, imports, outbox,
                 httpRequests, errorTimers, staleTimers>>
  /\ UNCHANGED <<appVars, upVars, fsiVars, boxRequest>>

\* the 'error' listener leaving isTyping as it is
OnError_KeepsTyping ==
  /\ Arrives("error")
  /\ "error" \in ChatListeners
  /\ inbox' = Tail(inbox)
  /\ IF Mounted
     THEN /\ chatError' = IF Head(inbox).ev.error # Null
                          THEN Head(inbox).ev.error ELSE ErrSocketDefault
          /\ UNCHANGED isTyping
          /\ staleTimers' = errorTimers
     ELSE UNCHANGED <<chatError, isTyping, staleTimers>>
  /\ UNCHANGED <<chatProps, messages, isConnected, connectionStatus,
                 showQuickQuestions, socketRef, sockets, imports, outbox,
                 httpRequests, errorTimers>>
  /\ UNCHANGED <<appVars, upVars, fsiVars, boxRequest>>

\* 'error' listener
OnError ==
  /\ Arrives("error")
  /\ "error" \in ChatListeners
  /\ inbox' = Tail(inbox)
  /\ IF Mounted
     THEN /\ chatError' = IF Head(inbox).ev.error # Null
                          THEN Head(inbox).ev.error ELSE ErrSocketDefault
          /\ isTyping' = FALSE
          /\ staleTimers' = errorTimers
     ELSE UNCHANGED <<chatError, isTyping, staleTimers>>
  /\ UNCHANGED <<chatProps, messages, isConnected, connectionStatus,
                 showQuickQuestions, socketRef, sockets, imports, outbox,
                 httpRequests, errorTimers>>
  /\ UNCHANGED <<appVars, upVars, fsiVars, boxRequest>>

\* an event without a listener is delivered and dropped
OnUnhandled ==
  /\ Len(inbox) > 0
  /\ Head(inbox).ev.name \notin ChatListeners
  /\ inbox' = Tail(inbox)
  /\ UNCHANGED <<chatProps, chatState, socketRef, sockets, imports, outbox,
                 httpRequests, errorTimers, staleTimers>>
  /\ UNCHANGED <<appVars, upVars, fsiVars, boxRequest>>

\* handleSendError: the banner text for each way the request can throw
SendErrorMessage(kind) ==
  IF kind = "ECONNABORTED" THEN "Request timed out. Please try again."
  ELSE IF kind = "server_error" THEN "Chat backend failed"
  ELSE IF kind = "Network Error"
       THEN "Connection error. Please check your internet and try again."
  ELSE "Unable to send message. Please try again."

\* handleSendMessage without its session check
HandleSendMessage_NoSessionCheck(message) ==
  /\ Mounted
  /\ IF IsBlank(message)
     THEN UNCHANGED <<chatState, chatNet>>
     ELSE /\ Len(messages) < MaxMessages
          /\ showQuickQuestions' = FALSE
          /\ messages' = Append(messages, UserMessage(message))
          /\ isTyping' = TRUE
          /\ chatError' = Null
          /\ IF socketRef # 0 /\ sockets[socketRef].state = "connected"
             THEN /\ Len(outbox) < MaxOutbox
                  /\ outbox' = Append(outbox, MessagePacket(message))
                  /\ UNCHANGED httpRequests
             ELSE /\ Len(httpRequests) < MaxHttp
                  /\ httpRequests' = Append(httpRequests,
                       [message |-> message, session_id |-> propSessionId])
                  /\ UNCHANGED outbox
          /\ UNCHANGED <<isConnected, connectionStatus, socketRef, sockets,
                         imports, inbox, errorTimers, staleTimers>>
  /\ UNCHANGED chatProps
  /\ UNCHANGED <<appVars, upVars, fsiVars>>

\* FuturisticChat.handleSendMessage up to the emit or the await of sendViaHttp
HandleSendMessage(message) ==
  /\ Mounted
  /\ IF IsBlank(message)
     THEN UNCHANGED <<chatState, chatNet>>
     ELSE IF propSessionId = Null
     THEN /\ chatError' = ErrSessionNotFound
          /\ staleTimers' = errorTimers
          /\ UNCHANGED <<messages, isConnected, isTyping, connectionStatus,
                         showQuickQuestions, socketRef, sockets, imports, inbox,
                         outbox, httpRequests, errorTimers>>
     ELSE /\ Len(messages) < MaxMessages
          /\ showQuickQuestions' = FALSE
          /\ messages' = Append(messages, UserMessage(message))
          /\ isTyping' = TRUE
          /\ chatError' = Null
          /\ IF socketRef # 0 /\ sockets[socketRef].state = "connected"
             THEN /\ Len(outbox) < MaxOutbox
                  /\ outbox' = Append(outbox, MessagePacket(message))
                  /\ UNCHANGED httpRequests
             ELSE /\ Len(httpRequests) < MaxHttp
                  /\ httpRequests' = Append(httpRequests,
                       [message |-> message, session_id |-> propSessionId])
                  /\ UNCHANGED outbox
          /\ UNCHANGED <<isConnected, connectionStatus, socketRef, sockets,
                         imports, inbox, errorTimers, staleTimers>>
  /\ UNCHANGED chatProps
  /\ UNCHANGED <<appVars, upVars, fsiVars>>

\* handleSendMessage called by a quick-question button or any other caller
SendDirect(message) ==
  /\ HandleSendMessage(message)
  /\ UNCHANGED boxRequest

\* ChatBox.handleSend: the box is enabled (sessionId present, not awaiting
\* an earlier send) and the trimmed input is not empty; it awaits
\* onSendMessage, which is pending only while a POST /chat is in flight
BoxHandleSend(message) ==
  /\ propSessionId # Null
  /\ boxRequest = 0
  /\ ~IsBlank(message)
  /\ HandleSendMessage(message)
  /\ boxRequest' = IF httpRequests' # httpRequests THEN Len(httpRequests') ELSE 0

\* ChatBox's local isTyping: the typing indicator is shown and the input
\* and the send button are disabled
BoxIsTyping == boxRequest # 0

\* the request handleSend awaits once request i settled: its finally block
\* runs when i is the awaited request
AwaitedAfter(i) ==
  IF boxRequest = i THEN 0
  ELSE IF boxRequest > i THEN boxRequest - 1
  ELSE boxRequest

\* sendViaHttp leaving isTyping as it is when the request resolves
HttpResolves_KeepsTyping(i, data) ==
  /\ i \in DOMAIN httpRequests
  /\ httpRequests' = RemoveAt(httpRequests, i)
  /\ IF data.success /\ data.response # Null
     THEN /\ Len(messages) < MaxMessages
          /\ messages' = Append(messages, AssistantMessage(data.response))
          /\ chatError' = Null
          /\ UNCHANGED staleTimers
     ELSE /\ chatError' = IF data.error # Null THEN data.error ELSE ErrHttpDefault
          /\ staleTimers' = errorTimers
          /\ UNCHANGED messages
  /\ UNCHANGED isTyping
  /\ UNCHANGED <<chatProps, isConnected, connectionStatus, showQuickQuestions,
                 socketRef, sockets, imports, inbox, outbox, errorTimers>>
  /\ boxRequest' = AwaitedAfter(i)
  /\ UNCHANGED <<appVars, upVars, fsiVars>>

\* sendViaHttp after the await: request i resolves with a response body
HttpResolves(i, data) ==
  /\ i \in DOMAIN httpRequests
  /\ httpRequests' = RemoveAt(httpRequests, i)
  /\ IF data.success /\ data.response # Null
     THEN /\ Len(messages) < MaxMessages
          /\ messages' = Append(messages, AssistantMessage(data.response))
          /\ chatError' = Null
          /\ UNCHANGED staleTimers
     ELSE /\ chatError' = IF data.error # Null THEN data.error ELSE ErrHttpDefault
          /\ staleTimers' = errorTimers
          /\ UNCHANGED messages
  /\ isTyping' = FALSE
  /\ UNCHANGED <<chatProps, isConnected, connectionStatus, showQuickQuestions,
                 socketRef, sockets, imports, inbox, outbox, errorTimers>>
  /\ boxRequest' = AwaitedAfter(i)
  /\ UNCHANGED <<appVars, upVars, fsiVars>>

\* sendViaHttp after the await: request i throws, handleSendError runs
HttpThrows(i, kind) ==
  /\ i \in DOMAIN httpRequests
  /\ errorTimers < MaxErrorTimers
  /\ httpRequests' = RemoveAt(httpRequests, i)
  /\ isTyping' = FALSE
  /\ chatError' = SendErrorMessage(kind)
  /\ errorTimers' = errorTimers + 1
  /\ staleTimers' = errorTimers
  /\ UNCHANGED <<chatProps, messages, isConnected, connectionStatus,
                 showQuickQuestions, socketRef, sockets, imports, inbox, outbox>>
  /\ boxRequest' = AwaitedAfter(i)
  /\ UNCHANGED <<appVars, upVars, fsiVars>>

\* a 5 s timer of handleSendError fires
ErrorTimerFires ==
  /\ errorTimers > 0
  /\ errorTimers' = errorTimers - 1
  /\ staleTimers' = IF staleTimers > 0 THEN staleTimers - 1 ELSE 0
  /\ chatError' = Null
  /\ UNCHANGED <<chatProps, messages, isConnected, isTyping, connectionStatus,
                 showQuickQuestions, socketRef, sockets, imports, inbox, outbox,
                 httpRequests>>
  /\ UNCHANGED <<appVars, upVars, fsiVars, boxRequest>>

\* the close button of the chat's error alert
DismissChatError ==
  /\ Mounted
  /\ chatError # Null
  /\ chatError' = Null
  /\ UNCHANGED <<chatProps, messages, isConnected, isTyping, connectionStatus,
                 showQuickQuestions, chatNet>>
  /\ UNCHANGED <<appVars, upVars, fsiVars, boxRequest>>

InitAppSpec == InitApp /\ InitUpload /\ ChatAbsent /\ FsiAbsent

NextApp ==
  \/ \E files \in FileLists : HandleFileUpload(files)
  \/ \E i \in 1..MaxUploads : ProgressTick(i)
  \/ \E i \in 1..MaxUploads, data \in ResponseData : UploadResolves(i, data)
  \/ \E i \in 1..MaxUploads, kind \in ThrowKinds : UploadThrows(i, kind)
  \/ \E i \in 1..MaxUploads : ResetTimerFires(i)
  \/ ResumeOnNext
  \/ HandleStartChat
  \/ HandleBack
  \/ HandleNext
  \/ NavbarConnect
  \/ DismissAppError

SpecApp == InitAppSpec /\ [][NextApp]_vars

InitChatSpec == InitChat /\ InitApp /\ InitUpload /\ FsiAbsent

\* the steps of one mounted FuturisticChat: effect, user, timers, requests
NextChatClient ==
  \/ MountEffect
  \/ ImportResolves
  \/ ImportFails
  \/ \E message \in ChatInputs : SendDirect(message)
  \/ \E message \in ChatInputs : BoxHandleSend(message)
  \/ \E i \in 1..MaxHttp, data \in ChatResponses : HttpResolves(i, data)
  \/ \E i \in 1..MaxHttp, kind \in ThrowKinds : HttpThrows(i, kind)
  \/ ErrorTimerFires
  \/ DismissChatError

\* the socket's connection and the emits the server takes
NextChatNetwork ==
  \/ \E k \in 1..MaxSockets : SocketConnects(k)
  \/ \E k \in 1..MaxSockets : SocketConnectError(k)
  \/ \E k \in 1..MaxSockets : SocketDrops(k)
  \/ ServerReceives

\* the events the server sends and the listeners they run
NextChatEvents ==
  \/ \E k \in 1..MaxSockets, ev \in ServerEvents : ServerEmits(k, ev)
  \/ OnAiResponse
  \/ OnTyping
  \/ OnError
  \/ OnUnhandled

NextChat == NextChatClient \/ NextChatNetwork \/ NextChatEvents

SpecChat == InitChatSpec /\ [][NextChat]_vars

\* a server that never sends an event
NextChatSilent == NextChatClient \/ NextChatNetwork

\* timers fire, requests settle (axios timeout 15 s) and the dynamic import
\* settles; the network and the user are not obliged to do anything
ChatFairness ==
  /\ WF_vars(ErrorTimerFires)
  /\ WF_vars(\E i \in 1..MaxHttp :
       (\E data \in ChatResponses : HttpResolves(i, data))
         \/ (\E kind \in ThrowKinds : HttpThrows(i, kind)))
  /\ WF_vars(ImportResolves \/ ImportFails)
  /\ WF_vars(MountEffect)

SpecChatSilent == InitChatSpec /\ [][NextChatSilent]_vars /\ ChatFairness

\* effect re-runs and unmounts, with the sockets they create and close
NextChatLife ==
  \/ MountEffect
  \/ \E sid \in {Null, "s1"}, p \in {Null, "p1"} : PropsChange(sid, p)
  \/ Unmount
  \/ ImportResolves
  \/ ImportFails
  \/ \E message \in ChatInputs : SendDirect(message)
  \/ NextChatNetwork

SpecChatLife == InitChatSpec /\ [][NextChatLife]_vars

InitFsiSpec == InitFsi /\ InitApp /\ InitUpload /\ ChatAbsent

NextFsi ==
  \/ \E text \in FsiInputs : SetMessageInput(text)
  \/ SendMessage
  \/ \E id \in 1..MaxSends : MainTimerFires(id)
  \/ \E id \in 1..MaxSends : CheckTimerFires(id)
  \/ \E id \in 1..MaxSends, response \in FallbackResponses : FallbackTimerFires(id, response)
  \/ \E message \in ReplyTexts \ {Null} : HandleReceiveMessage(message)
  \/ \E status \in {"start", "stop"} : HandleTyping(status)
  \/ \E error \in ErrorTexts : HandleError(error)
  \/ HandleConnect
  \/ HandleDisconnect
  \/ clearChat

SpecFsi == InitFsiSpec /\ [][NextFsi]_vars

InitFsiLoadSpec == InitFsiLoading /\ InitApp /\ InitUpload /\ ChatAbsent

\* generateFutureSelf and the tabs
NextFsiLoad ==
  \/ \E success \in BOOLEAN : AgePhotoResolves(success)
  \/ AgePhotoThrows
  \/ \E data \in ConvResponses : StartConversationResolves(data)
  \/ StartConversationThrows
  \/ \E tab \in Tabs : HandleTabClick(tab)
  \/ \E tab \in DataTabs, success \in BOOLEAN : TabLoadResolves(tab, success)
  \/ \E tab \in DataTabs : TabLoadThrows(tab)

\* every request settles; the user is not obliged to do anything
FsiLoadFairness ==
  /\ WF_vars((\E success \in BOOLEAN : AgePhotoResolves(success)) \/ AgePhotoThrows)
  /\ WF_vars((\E data \in ConvResponses : StartConversationResolves(data))
               \/ StartConversationThrows)
  /\ \A tab \in DataTabs :
       WF_vars((\E success \in BOOLEAN : TabLoadResolves(tab, success))
                 \/ TabLoadThrows(tab))

SpecFsiLoad == InitFsiLoadSpec /\ [][NextFsiLoad]_vars /\ FsiLoadFairness

\* the chat from the mount on: the greeting of generateFutureSelf, the
\* user's messages, the socket's events, the timers and clearChat
NextFsiChat ==
  \/ \E success \in BOOLEAN : AgePhotoResolves(success)
  \/ AgePhotoThrows
  \/ \E data \in ConvResponses : StartConversationResolves(data)
  \/ StartConversationThrows
  \/ \E text \in {"Where will I be?"} : SetMessageInput(text)
  \/ SendMessage
  \/ \E id \in 1..MaxSends : MainTimerFires(id)
  \/ \E id \in 1..MaxSends : CheckTimerFires(id)
  \/ \E id \in 1..MaxSends, response \in {"fallback 1"} : FallbackTimerFires(id, response)
  \/ \E message \in ReplyTexts \ {Null} : HandleReceiveMessage(message)
  \/ \E status \in {"start"} : HandleTyping(status)
  \/ \E error \in {Null} : HandleError(error)
  \/ HandleConnect
  \/ HandleDisconnect
  \/ clearChat

SpecFsiChat == InitFsiLoadSpec /\ [][NextFsiChat]_vars

\* the chat with its mode and personality selectors
NextFsiMode ==
  \/ \E mode \in {"normal", "professional"} : SetChatMode(mode)
  \/ \E personality \in {"encouraging", "realistic"} : SetAiPersonality(personality)
  \/ \E text \in {"Where will I be?"} : SetMessageInput(text)
  \/ SendMessage
  \/ \E id \in 1..MaxSends : MainTimerFires(id)
  \/ \E id \in 1..MaxSends : CheckTimerFires(id)
  \/ \E id \in 1..MaxSends, response \in {"fallback 1"} : FallbackTimerFires(id, response)
  \/ \E message \in ReplyTexts \ {Null} : HandleReceiveMessage(message)
  \/ \E error \in ErrorTexts : HandleError(error)
  \/ HandleConnect
  \/ HandleDisconnect

SpecFsiMode == InitFsiSpec /\ [][NextFsiMode]_vars

\* the PerformanceDashboard of a loaded FutureSelfInterface
NextDashboard ==
  \/ ShowDashboard
  \/ CloseDashboard
  \/ AutoRefresh
  \/ RefreshClick
  \/ OptimizeClick
  \/ \E performance \in PerformanceData : FetchResolves(performance)
  \/ FetchThrows
  \/ OptimizeResolves
  \/ OptimizeThrows
  \/ \E performance \in PerformanceData \cup {Null} : OptimizeRefreshSettles(performance)

SpecDashboard == InitFsiSpec /\ [][NextDashboard]_vars

(***************************************************************************)
(* Properties of FutureSelfInterface (checked under SpecFsi)                *)
(***************************************************************************)

\* C2: once a receive_message has been handled, no 20 s response timer that
\* an earlier sendMessage armed fires afterwards, however many messages were
\* sent before the reply.
C2_ReplyCancelsEarlierTimers ==
  [][\A id \in 1..MaxSends :
       MainTimerFires(id) =>
         \A t \in fsiTimers : t.id = id /\ t.kind = "main" => ~t.replied]_vars

\* C3: the 20 s timer of a message sent over the connected socket stays
\* armed as long as no receive_message, error or disconnect is handled; when
\* it fires it ends isTyping and appends exactly one placeholder from
\* 'future-self', and it is spent, so a message gets at most one placeholder.
C3_UndisturbedTimerFiresOnce ==
  /\ [](fsiUndisturbed \subseteq PendingMain)
  /\ [][\A id \in 1..MaxSends :
          MainTimerFires(id) =>
            /\ fsiIsTyping' = FALSE
            /\ fsiMessages' = Append(fsiMessages,
                                     FsiMessage(FirstRender, TimeoutPlaceholder, "future-self"))
            /\ id \notin PendingMain']_vars

\* one message went out on the socket, nothing came back, its timer fired
C3_Witness ==
  /\ fsiSocket = "connected"
  /\ fsiSends = 1
  /\ fsiMessages = <<FsiMessage(FirstRender, "Where will I be?", "user"),
                     FsiMessage(FirstRender, TimeoutPlaceholder, "future-self")>>
  /\ ~fsiIsTyping
  /\ PendingMain = {}

\* C14: generateFutureSelf ends with isLoading = false whatever the
\* requests answer (checked under SpecFsiLoad, where requests settle); when
\* age-photo or start-conversation throws, exactly one fallback greeting
\* from 'future-self' is appended, conversationId stays null and
\* futureAvatar becomes the uploaded photo or, without one, the default.
C14_GenerateAlwaysEndsLoading ==
  /\ isLoading ~> ~isLoading
  /\ [](genPhase = "done" => ~isLoading)
  /\ [][AgePhotoThrows \/ StartConversationThrows =>
          /\ isLoading' = FALSE
          /\ fsiMessages' = Append(fsiMessages,
                                   FsiMessage(FirstRender, FallbackGreeting, "future-self"))
          /\ conversationId = Null /\ conversationId' = Null
          /\ futureAvatar' = IF uploadedPhotoUrl # Null
                             THEN uploadedPhotoUrl ELSE DefaultAvatar]_vars

\* the photo was aged, then start-conversation threw
C14_Witness ==
  /\ genPhase = "done"
  /\ ~isLoading
  /\ uploadedPhotoUrl # Null
  /\ futureAvatar = uploadedPhotoUrl
  /\ conversationId = Null
  /\ fsiMessages = <<FsiMessage(FirstRender, FallbackGreeting, "future-self")>>

\* C15: a skills, roadmap, interview or salary tab whose load request
\* failed or answered without success does not stay on its 'Loading ...'
\* placeholder: it comes to show data or an error (checked under
\* SpecFsiLoad, where every request settles).
C15_TabLeavesLoading ==
  \A tab \in {"skills", "roadmap", "interview", "salary"} :
    ShowsLoading(tab) ~> ~ShowsLoading(tab)

(***************************************************************************)
(* Properties of FuturisticChat                                             *)
(***************************************************************************)

\* C1: handleSendMessage with a non-blank message and no sessionId sets the
\* banner 'Session not found. Please upload your resume first.' and changes
\* nothing else: no message appended, isTyping untouched, nothing emitted on
\* the socket, no POST /chat.
C1_NoSessionOnlySetsError ==
  [][\A message \in ChatInputs :
       HandleSendMessage(message) /\ ~IsBlank(message) /\ propSessionId = Null =>
         /\ chatError' = ErrSessionNotFound
         /\ UNCHANGED <<messages, isTyping, isConnected, connectionStatus,
                        showQuickQuestions, chatProps, chatNet>>]_vars

\* the banner is up in a chat without session, nothing sent
C1_Witness ==
  /\ Mounted
  /\ propSessionId = Null
  /\ chatError = ErrSessionNotFound
  /\ messages = <<>>
  /\ ~isTyping
  /\ outbox = <<>>
  /\ httpRequests = <<>>

\* C4: once a message went out over the socket and the server stays silent,
\* the client falls back by itself: isTyping returns to false.
C4_TypingEndsWithoutReply == isTyping ~> ~isTyping

\* an event is taken off the wire and given to its listeners
Delivered == Len(inbox) > 0 /\ inbox' = Tail(inbox) /\ sockets' = sockets

\* C5: every receive_message event delivered to a mounted FuturisticChat
\* appends one assistant message with the reply text and ends isTyping.
C5_ReceiveMessageAppendsReply ==
  [][Arrives("receive_message") /\ Delivered /\ Mounted
        /\ Len(messages) < MaxMessages =>
       /\ messages' = Append(messages, AssistantMessage(Head(inbox).ev.message))
       /\ isTyping' = FALSE]_vars

\* C11: a socket 'error' event sets the banner to the server's error text,
\* or to 'An error occurred. Please try again.' when the event carries none,
\* and ends isTyping; no message is appended and the connection state
\* (isConnected, connectionStatus, the socket) stays as it was.
C11_SocketErrorSetsBanner ==
  [][OnError /\ Mounted =>
       /\ chatError' = IF Head(inbox).ev.error # Null
                       THEN Head(inbox).ev.error ELSE ErrSocketDefault
       /\ isTyping' = FALSE
       /\ UNCHANGED <<messages, isConnected, connectionStatus, socketRef, sockets>>]_vars

\* an 'error' event without text arrived after a message went out
C11_Witness ==
  /\ Mounted
  /\ chatError = ErrSocketDefault
  /\ ~isTyping
  /\ isConnected
  /\ Len(messages) = 2
  /\ messages[2].role = "user"

(***************************************************************************)
(* Properties of App and FuturisticResumeUpload (checked under SpecApp)     *)
(***************************************************************************)

\* C6: the chat step is never current while sessionId or persona is missing,
\* and Start Chat with either missing sets 'Please upload your resume first'
\* and moves to 'resume'.
C6_ChatNeedsSessionAndPersona ==
  /\ [](currentStep = "chat" => sessionId # Null /\ persona # Null)
  /\ [][HandleStartChat /\ (sessionId = Null \/ persona = Null)
          => appError' = ErrUploadFirst /\ currentStep' = "resume"]_vars

\* the chat is open after an earlier Start Chat was refused
C6_Witness ==
  /\ currentStep = "chat"
  /\ sessionId # Null
  /\ persona # Null
  /\ appError = ErrUploadFirst

\* C7: a response that handleResumeUpload accepts leaves sessionId and persona
\* non-null, and a response lacking the session id or the persona is rejected
\* with 'Failed to process resume. Missing session or persona.'
C7_AcceptRequiresSessionAndPersona ==
  [][\A i \in 1..MaxUploads, data \in SuccessData :
       UploadResolves(i, data) =>
         IF data.session_id # Null /\ data.persona # Null
         THEN sessionId' # Null /\ persona' # Null /\ currentStep' = "dashboard"
         ELSE /\ appError' = ErrMissingSessionOrPersona
              /\ UNCHANGED <<currentStep, sessionId, resumeAnalysis, persona>>]_vars

\* C8: currentStep is one of the four steps, and in 'dashboard' and 'chat'
\* both resumeAnalysis and sessionId are set.
C8_DashboardAfterUpload ==
  /\ currentStep \in Steps
  /\ currentStep \in {"dashboard", "chat"} =>
       resumeAnalysis # NullData /\ sessionId # Null

\* the dashboard is reached again through the upload view's Next button
C8_Witness ==
  /\ currentStep = "dashboard"
  /\ resumeAnalysis # NullData
  /\ appError = ErrAnalyzeFirst

\* C9: sessionId, persona and resumeAnalysis come from one accepted response,
\* and persona changes only in a step that accepts a response and takes
\* sessionId from it too.
C9_AssignedTogether ==
  /\ [](/\ resumeAnalysis = NullData => sessionId = Null /\ persona = Null
        /\ resumeAnalysis # NullData =>
             /\ sessionId = resumeAnalysis.session_id
             /\ persona = resumeAnalysis.persona)
  /\ [][persona' # persona =>
          \E i \in 1..MaxUploads, data \in SuccessData :
            /\ UploadResolves(i, data)
            /\ sessionId' = data.session_id
            /\ persona' = data.persona
            /\ resumeAnalysis' = data]_vars

\* a second response replaced the session and dropped the persona
C9_Witness ==
  /\ resumeAnalysis # NullData
  /\ sessionId = "s2"
  /\ persona = Null
  /\ appError = ErrUploadFirst

\* C10: handleFileUpload sends a request only for a file of an allowed type
\* whose size is strictly less than 10 MB; for any other file it sets an
\* error and neither sends a request nor changes isAnalyzing, resumeAnalysis
\* or App's state.
C10_RequestOnlyForValidFile ==
  [][\A files \in FileLists :
       HandleFileUpload(files) /\ Len(files) > 0 =>
         IF files[1].type \in AllowedTypes /\ files[1].size < MaxFileSize
         THEN TRUE
         ELSE /\ upError' \in {ErrFileType, ErrFileSize}
              /\ UNCHANGED <<uploads, isAnalyzing, upResumeAnalysis, appVars>>]_vars

\* C16: when handleResumeUpload rejects the response it is given (no
\* success flag or no session_id) it sets the banner 'Failed to process
\* resume. Missing session or persona.' and leaves currentStep, sessionId,
\* persona and resumeAnalysis as they were.
C16_RejectKeepsState ==
  [][\A i \in 1..MaxUploads, data \in SuccessData :
       UploadResolves(i, data) /\ ~(data.success /\ data.session_id # Null) =>
         /\ appError' = ErrMissingSessionOrPersona
         /\ UNCHANGED <<currentStep, sessionId, resumeAnalysis, persona>>]_vars

\* a response without session_id was rejected after an accepted one
C16_Witness ==
  /\ appError = ErrMissingSessionOrPersona
  /\ currentStep = "resume"
  /\ sessionId = "s1"
  /\ resumeAnalysis # NullData
  /\ resumeAnalysis.session_id = "s1"

\* C17: an accepted send (non-blank message, sessionId present) uses exactly
\* one transport: a 'message' emit when the socket exists and is connected,
\* otherwise one POST /chat. When the POST settles isTyping is false, and
\* either one assistant message is appended (success flag and response
\* present) or the banner is set and no message is appended.
C17_OneTransportPerSend ==
  /\ [][\A message \in ChatInputs :
          HandleSendMessage(message) /\ ~IsBlank(message) /\ propSessionId # Null =>
            IF socketRef # 0 /\ sockets[socketRef].state = "connected"
            THEN /\ outbox' = Append(outbox, MessagePacket(message))
                 /\ httpRequests' = httpRequests
            ELSE /\ httpRequests' = Append(httpRequests,
                       [message |-> message, session_id |-> propSessionId])
                 /\ outbox' = outbox
                 /\ sockets' = sockets]_vars
  /\ [][\A i \in 1..MaxHttp, data \in ChatResponses :
          HttpResolves(i, data) =>
            /\ isTyping' = FALSE
            /\ IF data.success /\ data.response # Null
               THEN messages' = Append(messages, AssistantMessage(data.response))
               ELSE chatError' # Null /\ messages' = messages]_vars
  /\ [][\A i \in 1..MaxHttp, kind \in ThrowKinds :
          HttpThrows(i, kind) =>
            isTyping' = FALSE /\ chatError' # Null /\ messages' = messages]_vars

\* a POST /chat answered without success and without an error text
C17_Witness ==
  /\ Mounted
  /\ chatError = ErrHttpDefault
  /\ ~isTyping
  /\ httpRequests = <<>>
  /\ outbox = <<>>
  /\ Len(messages) = 2
  /\ messages[2].role = "user"

\* C18: while FuturisticChat's isTyping is true, the ChatBox it renders
\* shows the typing indicator and keeps its input and send button disabled.
C18_BoxFollowsTyping == Mounted /\ isTyping => BoxIsTyping

\* C19: the transcript is append-only: while the component is mounted,
\* messages changes only by one entry appended at the end (the user's
\* message in handleSendMessage, an assistant message on 'ai_response' or
\* on a successful POST /chat) or by the mount effect setting it to the
\* single welcome message; and the user's message is appended in the very
\* step that sends it, so before any reply to it.
C19_TranscriptAppendOnly ==
  /\ [][messages' # messages /\ chatPhase' # "unmounted" =>
          \/ \E message \in ChatInputs :
               /\ HandleSendMessage(message)
               /\ messages' = Append(messages, UserMessage(message))
          \/ /\ OnAiResponse
             /\ messages' = Append(messages, AssistantMessage(Head(inbox).ev.response))
          \/ \E i \in 1..MaxHttp, data \in ChatResponses :
               /\ HttpResolves(i, data)
               /\ data.success /\ data.response # Null
               /\ messages' = Append(messages, AssistantMessage(data.response))
          \/ /\ MountEffect \/ (\E sid \in {Null, "s1"}, p \in {Null, "p1"} : PropsChange(sid, p))
             /\ messages' = <<WelcomeMessage>>]_vars
  /\ [][\A message \in ChatInputs :
          HandleSendMessage(message)
            /\ (outbox' # outbox \/ httpRequests' # httpRequests) =>
              messages' = Append(messages, UserMessage(message))]_vars

\* welcome, the user's message, then the reply
C19_Witness ==
  /\ Mounted
  /\ Len(messages) = 3
  /\ messages[1] = WelcomeMessage
  /\ messages[2].role = "user"
  /\ messages[3] = AssistantMessage("Keep learning.")

\* C20: handleBack maps chat to dashboard, dashboard to resume, resume and
\* welcome to welcome; handleNext maps welcome to resume, resume to
\* dashboard only with resumeAnalysis set, dashboard to chat only with
\* sessionId and persona set, and keeps the step in every other case
\* (always in 'chat'); neither changes sessionId, persona, resumeAnalysis
\* or error.
C20_BackAndNextMapping ==
  /\ [](\A step \in Steps :
          /\ handleBackStep(step) =
               CASE step = "chat" -> "dashboard"
                 [] step = "dashboard" -> "resume"
                 [] step \in {"resume", "welcome"} -> "welcome"
          /\ \A ra \in {NullData, resumeAnalysis}, sid \in SessionIds \cup {Null},
                p \in Personas \cup {Null} :
               handleNextStep(step, ra, sid, p) =
                 CASE step = "welcome" -> "resume"
                   [] step = "resume" -> IF ra # NullData THEN "dashboard" ELSE "resume"
                   [] step = "dashboard" ->
                        IF sid # Null /\ p # Null THEN "chat" ELSE "dashboard"
                   [] step = "chat" -> "chat")
  /\ [][HandleBack =>
          /\ currentStep' = handleBackStep(currentStep)
          /\ UNCHANGED <<sessionId, persona, resumeAnalysis, appError>>]_vars
  /\ [][HandleNext =>
          /\ currentStep' = handleNextStep(currentStep, resumeAnalysis, sessionId, persona)
          /\ UNCHANGED <<sessionId, persona, resumeAnalysis, appError>>]_vars

\* Back led from the dashboard over 'resume' to 'welcome' and the
\* session, the persona and the analysis are still there
C20_Witness ==
  /\ currentStep = "welcome"
  /\ sessionId # Null
  /\ persona # Null
  /\ resumeAnalysis # NullData

\* C12: every error banner can be dismissed: whenever the error of App, of
\* FuturisticResumeUpload or of FuturisticChat is set, the user has an
\* action that sets it to null and changes nothing else.
C12_ErrorsDismissible ==
  /\ appError # Null =>
       ENABLED (NextApp /\ appError' = Null
                  /\ UNCHANGED <<currentStep, sessionId, resumeAnalysis, persona,
                                 upVars, chatVars, fsiVars>>)
  /\ upError # Null =>
       ENABLED (NextApp /\ upError' = Null
                  /\ UNCHANGED <<appVars, upResumeAnalysis, isAnalyzing,
                                 uploadProgress, uploads, chatVars, fsiVars>>)
  /\ chatError # Null /\ Mounted =>
       ENABLED (DismissChatError /\ chatError' = Null)

C21_LateResponseKeepsStep ==
  [][\A i \in 1..MaxUploads, data \in ResponseData :
       UploadResolves(i, data) /\ currentStep # "resume" =>
         currentStep' = currentStep]_vars

\* C22: every socket FuturisticChat created is disconnected once the
\* component unmounted or its effect ran again, also when the import
\* resolved after the cleanup: after the unmount no socket is open, and at
\* any time the only socket that may be open is the one socketRef holds.
C22_SocketsDisconnected ==
  /\ chatPhase = "unmounted" =>
       \A k \in DOMAIN sockets : sockets[k].state = "closed"
  /\ \A k \in DOMAIN sockets : k # socketRef => sockets[k].state = "closed"

\* C23: in FutureSelfInterface messageCount is the length of messages and
\* of messageHistory, and messages equals messageHistory, in every
\* reachable state, whatever the order of sendMessage, socket events, timer
\* callbacks, the greeting and clearChat.
C23_CountAndHistoryAgree ==
  /\ messageCount = Len(fsiMessages)
  /\ messageCount = Len(messageHistory)
  /\ fsiMessages = messageHistory

\* after a clearChat the transcript holds a message of the user, the
\* placeholder of its 20 s timer and a reply of the socket
C23_Witness ==
  /\ conversationId # Null
  /\ messageCount = 3
  /\ fsiMessages[1].sender = "user"
  /\ fsiMessages[2].message = TimeoutPlaceholder
  /\ fsiMessages[3].message = "Keep learning."

\* C24: every message added to the transcript records the chatMode and the
\* aiPersonality selected at the moment it is added, also when a socket
\* handler adds it after the user changed the selection.
C24_MessageRecordsSelection ==
  [][Len(fsiMessages') = Len(fsiMessages) + 1 =>
       /\ fsiMessages'[Len(fsiMessages')].chatMode = chatMode
       /\ fsiMessages'[Len(fsiMessages')].aiPersonality = aiPersonality]_vars

\* C25: in FuturisticResumeUpload, once an upload attempt finished (with
\* success, with success=false, with a network error or a timeout) its
\* progress interval is stopped, and uploadProgress, once back to 0, stays 0
\* until the next upload starts; while a request is in flight uploadProgress
\* is at most 90.
C25_ProgressStopsAfterUpload ==
  /\ [](\A i \in DOMAIN uploads :
          uploads[i].live /\ ~uploads[i].pending => ~uploads[i].interval)
  /\ [](isAnalyzing => uploadProgress <= 90)
  /\ [][~isAnalyzing /\ uploadProgress = 0 /\ uploadProgress' # 0 => isAnalyzing']_vars

\* C26: the 5 s timer started by handleSendError clears only the error it
\* was started for: when a timer fires while an error is shown, that error
\* is the one set together with the timer, not one set later by a failed
\* send, a socket 'error' event or the missing-session check.
C26_TimerClearsOwnError ==
  [][ErrorTimerFires /\ chatError # Null => staleTimers = 0]_vars

\* C27: in PerformanceDashboard loading is true whenever a performance-stats
\* or optimize request started by the dashboard is in flight, and false
\* once none is in flight.
C27_LoadingWhileInFlight == loading <=> InFlight > 0

\* C28: generateFutureSelf issues the start-conversation request whatever
\* the outcome of the age-photo request (success, success=false or an
\* exception): every step that ends the wait for age-photo begins the wait
\* for start-conversation.
C28_ConversationStartedAfterAgePhoto ==
  [][genPhase = "age" /\ genPhase' # "age" => genPhase' = "conv"]_vars

====
